---- MODULE Spec2Model ----
(***************************************************************************)
(* The lightweight (heuristic) detector of src/script.js, lines 138-293:   *)
(* the scoring function computeScoreFromBitmap with clamp, and the event   *)
(* handlers that drive it (input change, FileReader onload, Reset,         *)
(* Analyze, Download report).                                              *)
(*                                                                         *)
(* Numbers.  The script computes in IEEE doubles; here every fractional    *)
(* quantity is a fixed-point integer counted in thousandths (90.0 is       *)
(* 90000, a random draw U in [0,1) is 0..999), quotients and square roots  *)
(* are rounded down to the thousandth.  Sums that exceed 31 bits are kept  *)
(* as a pair <<q, r>> meaning q + r/cnt, cnt being the divisor the code    *)
(* applies to the sum afterwards.                                          *)
(***************************************************************************)
EXTENDS Integers, Sequences, FiniteSets, TLC

VARIABLES
  call,              \* the last direct invocation of computeScoreFromBitmap
  currentFile,       \* let currentFile
  preview,           \* preview.src: the file whose data URL it shows, or null
  previewWrapHidden, \* previewWrap has class "hidden"
  analyzeBtnDisabled,\* analyzeBtn.disabled
  resetBtnDisabled,  \* resetBtn.disabled
  loaderHidden,      \* loader has class "hidden"
  resultBox,         \* resultBox: class "hidden" and what showResult wrote in it
  resultOf,          \* <<file decoded, file measured>> behind resultBox's score
  readers,           \* per file, the FileReaders whose onload has not fired yet
  analyses,          \* per file, the Analyze handlers awaiting createImageBitmap
  report             \* the last text downloadReport produced

scoreVars == <<call>>
uiVars == <<currentFile, preview, previewWrapHidden, analyzeBtnDisabled,
            resetBtnDisabled, loaderHidden, resultBox, resultOf, readers,
            analyses, report>>
vars == <<call, currentFile, preview, previewWrapHidden, analyzeBtnDisabled,
          resetBtnDisabled, loaderHidden, resultBox, resultOf, readers, analyses,
          report>>

null == 0

----------------------------------------------------------------------------
(* Math.max, Math.min, Math.abs, Math.round                                *)

MathMax(a, b) == IF a >= b THEN a ELSE b

MathMin(a, b) == IF a <= b THEN a ELSE b

MathAbs(v) == IF v < 0 THEN 0 - v ELSE v

\* Math.round of the quotient n/d (n >= 0, d > 0): the nearest integer, a tie
\* going up.
MathRoundFloor(n, d) == n \div d
MathRound(n, d) == (2 * n + d) \div (2 * d)

\* function clamp(v,a,b)
clampNoUpper(v, a, b) == MathMax(a, v)
clamp(v, a, b) == MathMax(a, MathMin(b, v))

----------------------------------------------------------------------------
(* The pixels.  A source image is [width, height, pattern]; the pattern    *)
(* gives the colour the decoder and drawImage's resampling put at (x, y).  *)

Patterns == {"black", "gray", "red", "pastel", "checker", "noise"}

Pixel(p, x, y) ==
  CASE p = "black"   -> <<0, 0, 0>>
    [] p = "blank"   -> <<0, 0, 0>>
    [] p = "gray"    -> <<128, 128, 128>>
    [] p = "red"     -> <<255, 0, 0>>
    [] p = "pastel"  -> <<200, 100, 100>>
    [] p = "checker" -> IF (x + y) % 2 = 0 THEN <<0, 0, 0>> ELSE <<255, 255, 255>>
    [] p = "noise"   -> <<(73 * x + 151 * y) % 256, (29 * x + 57 * y + 90) % 256,
                          (201 * x + 13 * y + 7) % 256>>

maxDim == 512

\* const scale = Math.min(1, maxDim / Math.max(width, height)), as the
\* fraction <<numerator, denominator>>; maxDim / 0 is +Infinity.
scale(imgBitmap) ==
  LET m == MathMax(imgBitmap.width, imgBitmap.height)
  IN IF m = 0 \/ maxDim >= m THEN <<1, 1>> ELSE <<maxDim, m>>

\* const w = Math.max(64, Math.round(imgBitmap.width * scale)), and h
canvasDim(d, s) == MathMax(64, MathRound(d * s[1], s[2]))

ZeroArea(imgBitmap) == imgBitmap.width = 0 \/ imgBitmap.height = 0

\* new OffscreenCanvas(w, h); drawImage(imgBitmap, 0, 0, w, h); getImageData:
\* the w x h buffer.  drawImage paints nothing from a source of zero width
\* or height, which leaves the canvas transparent black.
getImageData(imgBitmap) ==
  [w |-> canvasDim(imgBitmap.width, scale(imgBitmap)),
   h |-> canvasDim(imgBitmap.height, scale(imgBitmap)),
   pattern |-> IF ZeroArea(imgBitmap) THEN "blank" ELSE imgBitmap.pattern]

\* data[i*4 + cidx], cidx = 1..3 here
data(buf, i, cidx) == Pixel(buf.pattern, i % buf.w, i \div buf.w)[cidx]

\* gray[i] = 0.299*r + 0.587*g + 0.114*b
gray(buf, i) ==
  LET px == Pixel(buf.pattern, i % buf.w, i \div buf.w)
  IN 299 * px[1] + 587 * px[2] + 114 * px[3]

\* v = -4*gray[i] + gray[i-1] + gray[i+1] + gray[i-w] + gray[i+w]; Math.abs(v)
lapAt(buf, i) ==
  MathAbs(0 - 4 * gray(buf, i) + gray(buf, i - 1) + gray(buf, i + 1)
          + gray(buf, i - buf.w) + gray(buf, i + buf.w))

\* sat = maxv===0 ? 0 : (maxv - minv)/maxv
satAtOneOnBlack(buf, i) ==
  LET px == Pixel(buf.pattern, i % buf.w, i \div buf.w)
      maxv == MathMax(px[1], MathMax(px[2], px[3]))
      minv == MathMin(px[1], MathMin(px[2], px[3]))
  IN IF maxv = 0 THEN 1000 ELSE ((maxv - minv) * 1000) \div maxv
satAt(buf, i) ==
  LET px == Pixel(buf.pattern, i % buf.w, i \div buf.w)
      maxv == MathMax(px[1], MathMax(px[2], px[3]))
      minv == MathMin(px[1], MathMin(px[2], px[3]))
  IN IF maxv = 0 THEN 0 ELSE ((maxv - minv) * 1000) \div maxv

\* What one loop iteration adds to its accumulator.
Term(kind, cidx, buf, i) ==
  CASE kind = "lap"  -> lapAt(buf, i)
    [] kind = "mean" -> data(buf, i, cidx)
    [] kind = "sq"   -> data(buf, i, cidx) * data(buf, i, cidx)
    [] kind = "sat"  -> satAt(buf, i)

\* The accumulation over x = lo..hi of row y.
RECURSIVE RowSum(_, _, _, _, _, _)
RowSum(kind, cidx, buf, y, lo, hi) ==
  IF lo > hi THEN 0
  ELSE IF lo = hi THEN Term(kind, cidx, buf, y * buf.w + lo)
  ELSE LET mid == (lo + hi) \div 2
       IN RowSum(kind, cidx, buf, y, lo, mid) + RowSum(kind, cidx, buf, y, mid + 1, hi)

Carry(a, b, cnt) == <<a[1] + b[1] + (a[2] + b[2]) \div cnt, (a[2] + b[2]) % cnt>>

\* The accumulation over rows ylo..yhi and columns xlo..xhi, divided by cnt.
RECURSIVE LoopSum(_, _, _, _, _, _, _, _)
LoopSum(kind, cidx, buf, ylo, yhi, xlo, xhi, cnt) ==
  IF ylo > yhi THEN <<0, 0>>
  ELSE IF ylo = yhi
       THEN LET t == RowSum(kind, cidx, buf, ylo, xlo, xhi) IN <<t \div cnt, t % cnt>>
  ELSE LET mid == (ylo + yhi) \div 2
       IN Carry(LoopSum(kind, cidx, buf, ylo, mid, xlo, xhi, cnt),
                LoopSum(kind, cidx, buf, mid + 1, yhi, xlo, xhi, cnt), cnt)

\* q + r/cnt in thousandths
Thousandths(pair, cnt) == pair[1] * 1000 + (pair[2] * 1000) \div cnt

\* const lapAvg = lapSum / ((w-2)*(h-2))   (gray is in thousandths already)
lapAvg(buf) ==
  LoopSum("lap", 0, buf, 1, buf.h - 2, 1, buf.w - 2, (buf.w - 2) * (buf.h - 2))[1]

\* mean[cidx] /= N
mean(buf, cidx) ==
  Thousandths(LoopSum("mean", cidx, buf, 0, buf.h - 1, 0, buf.w - 1, buf.w * buf.h),
              buf.w * buf.h)

\* sq[cidx]/N
sqOverN(buf, cidx) ==
  Thousandths(LoopSum("sq", cidx, buf, 0, buf.h - 1, 0, buf.w - 1, buf.w * buf.h),
              buf.w * buf.h)

\* a*b of two fixed-point numbers
Times(a, b) == (a \div 1000) * b + ((a % 1000) * b) \div 1000

\* s*s <= v for fixed-point s, v
SquareAtMost(s, v) ==
  LET q == Times(s, s)
      rem == ((s % 1000) * s) % 1000
  IN q < v \/ (q = v /\ rem = 0)

\* Math.sqrt: the largest s in lo..hi with s*s <= v
RECURSIVE SqrtIn(_, _, _)
SqrtIn(v, lo, hi) ==
  IF lo = hi THEN lo
  ELSE LET mid == (lo + hi + 1) \div 2
       IN IF SquareAtMost(mid, v) THEN SqrtIn(v, mid, hi) ELSE SqrtIn(v, lo, mid - 1)

MathSqrt(v) == SqrtIn(v, 0, 255000)

\* std[cidx] = Math.sqrt(Math.max(0, sq[cidx]/N - mean[cidx]*mean[cidx]))
std(buf, cidx) ==
  MathSqrt(MathMax(0, sqOverN(buf, cidx) - Times(mean(buf, cidx), mean(buf, cidx))))

\* const avgStd = (std[0]+std[1]+std[2]) / 3
avgStd(buf) == (std(buf, 1) + std(buf, 2) + std(buf, 3)) \div 3

\* const avgSat = satSum / N
avgSat(buf) ==
  LoopSum("sat", 0, buf, 0, buf.h - 1, 0, buf.w - 1, buf.w * buf.h)[1]

\* const sizeKB = file.size / 1024
sizeKB(size) == (size \div 1024) * 1000 + ((size % 1024) * 1000) \div 1024

----------------------------------------------------------------------------
(* The inputs explored.                                                    *)

\* Source images <<width, height, pattern, detached>>.  A closed (detached)
\* ImageBitmap reports width 0 and height 0.
Images ==
  { [width |-> t[1], height |-> t[2], pattern |-> t[3], detached |-> t[4]] : t \in
    { <<64, 64, "black", FALSE>>, <<64, 64, "checker", FALSE>>,
      <<64, 64, "red", FALSE>>, <<1, 1, "gray", FALSE>>,
      <<63, 65, "noise", FALSE>>, <<100, 70, "pastel", FALSE>>,
      <<10, 80, "checker", FALSE>>, <<512, 64, "black", FALSE>>,
      <<513, 64, "black", FALSE>>, <<1024, 127, "black", FALSE>>,
      <<4096, 100, "black", FALSE>>, <<1024, 129, "gray", FALSE>>,
      <<2048, 259, "gray", FALSE>>, <<1001, 127, "gray", FALSE>>,
      <<0, 0, "black", FALSE>>, <<0, 100, "red", FALSE>>,
      <<0, 0, "black", TRUE>> } }

\* The files: their byte length, whether createImageBitmap can decode them,
\* and the bitmap it then resolves with.
Files == {1, 2, 3}

fileTable ==
  [f \in Files |->
     CASE f = 1 -> [size |-> 0, decodable |-> TRUE,
                    bitmap |-> [width |-> 64, height |-> 64, pattern |-> "black",
                                detached |-> FALSE]]
       [] f = 2 -> [size |-> 10240, decodable |-> TRUE,
                    bitmap |-> [width |-> 100, height |-> 70, pattern |-> "pastel",
                                detached |-> FALSE]]
       [] f = 3 -> [size |-> 204800, decodable |-> FALSE,
                    bitmap |-> [width |-> 0, height |-> 0, pattern |-> "black",
                                detached |-> TRUE]]]

\* Math.random(), in thousandths: a draw in [0, 1)
Draws == {0, 500, 999}

\* The pixel loops of computeScoreFromBitmap, once per working buffer.
Features(buf) ==
  [lapAvg |-> lapAvg(buf), avgStd |-> avgStd(buf), avgSat |-> avgSat(buf)]

featureTable ==
  { <<buf, Features(buf)>> : buf \in {getImageData(img) : img \in Images} }

featuresOf(buf) == (CHOOSE e \in featureTable : e[1] = buf)[2]

----------------------------------------------------------------------------
(* computeScoreFromBitmap(imgBitmap, file), with U the value Math.random() *)
(* returns in it.                                                          *)

\* (Math.random()-0.5)*6
jitterWide(U) == (U - 500) * 8
jitter(U) == (U - 500) * 6

\* score = (lapNorm*0.45 + stdNorm*0.30 + satNorm*0.10 + sizeNorm*0.15) * 100
weightedSum(lapNorm, stdNorm, satNorm, sizeNorm) ==
  lapNorm * 45 + stdNorm * 30 + satNorm * 10 + sizeNorm * 15

\* Lines 257-265: the score from the buffer's features f, the file and the draw.
combine(imgBitmap, buf, f, file, U) ==
  LET kb == sizeKB(fileTable[file].size)
      lapNorm == clamp((150000 - f.lapAvg) \div 150, 0, 1000)
      stdNorm == clamp((60000 - f.avgStd) \div 60, 0, 1000)
      satNorm == clamp((f.avgSat - 250) * 2, 0, 1000)
      sizeNorm == clamp((100000 - MathMin(kb, 100000)) \div 100, 0, 1000)
      score == weightedSum(lapNorm, stdNorm, satNorm, sizeNorm)
  IN [outcome |-> "returned", imgBitmap |-> imgBitmap, file |-> file, U |-> U,
      w |-> buf.w, h |-> buf.h,
      lapAvg |-> f.lapAvg, avgStd |-> f.avgStd, avgSat |-> f.avgSat,
      sizeKB |-> kb, lapNorm |-> lapNorm, stdNorm |-> stdNorm,
      satNorm |-> satNorm, sizeNorm |-> sizeNorm, score |-> score,
      jittered |-> score + jitter(U),
      finalScore |-> clamp(score + jitter(U), 0, 100000)]

computeScoreFromBitmap(imgBitmap, file, U) ==
  IF imgBitmap.detached
  THEN \* drawImage throws InvalidStateError
       [outcome |-> "threw", imgBitmap |-> imgBitmap, file |-> file]
  ELSE IF file = null
  THEN \* file.size of null throws TypeError
       [outcome |-> "threw", imgBitmap |-> imgBitmap, file |-> file]
  ELSE combine(imgBitmap, getImageData(imgBitmap), featuresOf(getImageData(imgBitmap)),
               file, U)

NoCall == [outcome |-> "none"]

----------------------------------------------------------------------------
(* The page.                                                               *)

MaxReaders == 1
MaxAnalyses == 2

RECURSIVE SumOver(_, _)
SumOver(f, S) ==
  IF S = {} THEN 0 ELSE LET x == CHOOSE x \in S : TRUE IN f[x] + SumOver(f, S \ {x})

\* Number.prototype.toFixed(digits), digits = 1 or 2: the score in tenths or
\* hundredths, rounded to the nearest
toFixed(score, digits) ==
  IF digits = 1 THEN (score + 50) \div 100 ELSE (score + 5) \div 10

\* function showResult(score): what it leaves in resultBox
showResult(score) ==
  [hidden |-> FALSE,
   verdict |-> IF score >= 90000 THEN "AI-generated" ELSE "Likely real",
   text |-> toFixed(score, 1),
   score |-> score]

\* function downloadReport(score): the lines of the text file
downloadReportStrict(score) ==
  [score |-> toFixed(score, 2),
   flag |-> IF score > 90000 THEN "AI-generated" ELSE "Likely real",
   of |-> score]
downloadReport(score) ==
  [score |-> toFixed(score, 2),
   flag |-> IF score >= 90000 THEN "AI-generated" ELSE "Likely real",
   of |-> score]

NoResult == [hidden |-> TRUE, verdict |-> "", text |-> 0, score |-> 0]
NoReport == [score |-> 0, flag |-> "", of |-> 0]

\* function resetAll()
resetAll ==
  /\ preview' = null
  /\ previewWrapHidden' = TRUE
  /\ analyzeBtnDisabled' = TRUE
  /\ resetBtnDisabled' = TRUE
  /\ resultBox' = [resultBox EXCEPT !.hidden = TRUE]
  /\ currentFile' = null

\* input 'change' with a file chosen: currentFile = f, reader.readAsDataURL(f)
Change(f) ==
  /\ f # currentFile
  /\ SumOver(readers, Files) < MaxReaders
  /\ currentFile' = f
  /\ readers' = [readers EXCEPT ![f] = @ + 1]
  /\ UNCHANGED <<preview, previewWrapHidden, analyzeBtnDisabled, resetBtnDisabled,
                 loaderHidden, resultBox, resultOf, analyses, report, scoreVars>>

\* input 'change' with the selection emptied: if(!f) return resetAll()
ChangeNoFile ==
  /\ currentFile # null
  /\ resetAll
  /\ UNCHANGED <<loaderHidden, resultOf, readers, analyses, report, scoreVars>>

\* reader.onload
ReaderOnload(f) ==
  /\ readers[f] > 0
  /\ readers' = [readers EXCEPT ![f] = @ - 1]
  /\ preview' = f
  /\ previewWrapHidden' = FALSE
  /\ analyzeBtnDisabled' = FALSE
  /\ resetBtnDisabled' = FALSE
  /\ resultBox' = [resultBox EXCEPT !.hidden = TRUE]
  /\ UNCHANGED <<currentFile, loaderHidden, resultOf, analyses, report, scoreVars>>

\* resetBtn 'click' (a disabled button gets no click)
ResetClick ==
  /\ ~resetBtnDisabled
  /\ resetAll
  /\ UNCHANGED <<loaderHidden, resultOf, readers, analyses, report, scoreVars>>

\* analyzeBtn 'click', up to its first await
AnalyzeClick ==
  /\ ~analyzeBtnDisabled
  /\ \/ /\ currentFile = null
        /\ UNCHANGED vars
     \/ /\ currentFile # null
        /\ SumOver(analyses, Files) < MaxAnalyses
        /\ loaderHidden' = FALSE
        /\ analyzeBtnDisabled' = TRUE
        /\ analyses' = [analyses EXCEPT ![currentFile] = @ + 1]
        /\ UNCHANGED <<currentFile, preview, previewWrapHidden, resetBtnDisabled,
                       resultBox, resultOf, readers, report, scoreVars>>

\* finally{ loader.classList.add('hidden'); analyzeBtn.disabled = false; }
finally ==
  /\ loaderHidden' = TRUE
  /\ analyzeBtnDisabled' = FALSE

\* createImageBitmap(f) resolves: the rest of the Analyze handler, which
\* scores the bitmap of f with the file that is current now
BitmapResolved(f, U) ==
  /\ analyses[f] > 0
  /\ fileTable[f].decodable
  /\ analyses' = [analyses EXCEPT ![f] = @ - 1]
  /\ LET r == computeScoreFromBitmap(fileTable[f].bitmap, currentFile, U)
     IN IF r.outcome = "returned"
        THEN /\ resultBox' = showResult(r.finalScore)
             /\ resultOf' = <<f, currentFile>>
        ELSE \* catch(err): alert
             UNCHANGED <<resultBox, resultOf>>
  /\ finally
  /\ UNCHANGED <<currentFile, preview, previewWrapHidden, resetBtnDisabled, readers,
                 report, scoreVars>>

\* createImageBitmap(f) rejects: catch(err), finally
BitmapRejected(f) ==
  /\ analyses[f] > 0
  /\ ~fileTable[f].decodable
  /\ analyses' = [analyses EXCEPT ![f] = @ - 1]
  /\ finally
  /\ UNCHANGED <<currentFile, preview, previewWrapHidden, resetBtnDisabled,
                 resultBox, resultOf, readers, report, scoreVars>>

\* 'click' on the Download report button showResult put in resultBox
DownloadClick ==
  /\ ~resultBox.hidden
  /\ report' = downloadReport(resultBox.score)
  /\ UNCHANGED <<currentFile, preview, previewWrapHidden, analyzeBtnDisabled,
                 resetBtnDisabled, loaderHidden, resultBox, resultOf, readers,
                 analyses, scoreVars>>

----------------------------------------------------------------------------
(* The specifications.                                                     *)

\* The page as loaded: nothing chosen, both buttons disabled, the preview,
\* the loader and the result hidden (what resetAll establishes).
Init ==
  /\ call = NoCall
  /\ currentFile = null
  /\ preview = null
  /\ previewWrapHidden = TRUE
  /\ analyzeBtnDisabled = TRUE
  /\ resetBtnDisabled = TRUE
  /\ loaderHidden = TRUE
  /\ resultBox = NoResult
  /\ resultOf = <<null, null>>
  /\ readers = [f \in Files |-> 0]
  /\ analyses = [f \in Files |-> 0]
  /\ report = NoReport

Await ==
  \/ \E f \in Files : ReaderOnload(f)
  \/ \E f \in Files, U \in Draws : BitmapResolved(f, U)
  \/ \E f \in Files : BitmapRejected(f)

Next ==
  \/ \E f \in Files : Change(f)
  \/ ChangeNoFile
  \/ ResetClick
  \/ AnalyzeClick
  \/ DownloadClick
  \/ Await

\* The page under any order of events.
Spec == Init /\ [][Next]_vars

\* The page, where every pending load and every pending decode settles.
FairSpec ==
  /\ Spec
  /\ \A f \in Files :
       /\ WF_vars(ReaderOnload(f))
       /\ WF_vars(\E U \in Draws : BitmapResolved(f, U))
       /\ WF_vars(BitmapRejected(f))

\* const score = await computeScoreFromBitmap(imgBitmap, file); showResult(score)
\* on its own: one invocation from start to return (the function has no
\* await inside) and the display of what it returned.
Invoke(imgBitmap, file, U) ==
  /\ call' = computeScoreFromBitmap(imgBitmap, file, U)
  /\ IF call'.outcome = "returned"
     THEN resultBox' = showResult(call'.finalScore)
     ELSE UNCHANGED resultBox
  /\ UNCHANGED <<currentFile, preview, previewWrapHidden, analyzeBtnDisabled,
                 resetBtnDisabled, loaderHidden, resultOf, readers, analyses, report>>

ScoreNext ==
  \/ \E imgBitmap \in Images, file \in Files, U \in Draws : Invoke(imgBitmap, file, U)
  \/ DownloadClick

\* computeScoreFromBitmap called again and again on any image, file and draw,
\* each result shown and possibly downloaded.
ScoreSpec == Init /\ [][ScoreNext]_vars

----------------------------------------------------------------------------
(* The claims.                                                             *)

Returned == call.outcome = "returned"

\* C1: whatever the pixel buffer, the file length and the random draw, the
\* score computeScoreFromBitmap returns lies between 0 and 100.
C1_ScoreClamped == Returned => 0 <= call.finalScore /\ call.finalScore <= 100000

\* C1, its case: a returned score that the final clamp had to cut down to 100.
C1_Witness == Returned /\ call.jittered > 100000 /\ call.finalScore = 100000

\* C2: showResult's verdict is 'AI-generated' exactly when the score is >= 90
\* and 'Likely real' otherwise, downloadReport's flag likewise, and for one
\* score the two agree.
C2_VerdictAndFlag ==
  /\ ~resultBox.hidden =>
       resultBox.verdict = (IF resultBox.score >= 90000 THEN "AI-generated" ELSE "Likely real")
  /\ report # NoReport =>
       /\ report.flag = (IF report.of >= 90000 THEN "AI-generated" ELSE "Likely real")
       /\ (~resultBox.hidden /\ report.of = resultBox.score) => report.flag = resultBox.verdict

\* C2, its case: a report downloaded for a displayed score of exactly 90.
C2_Witness ==
  /\ ~resultBox.hidden /\ resultBox.score = 90000 /\ resultBox.verdict = "AI-generated"
  /\ report.of = 90000 /\ report.flag = "AI-generated"

BlackCall ==
  /\ Returned
  /\ ~ZeroArea(call.imgBitmap)
  /\ call.imgBitmap.pattern = "black"
  /\ call.U = 500
  /\ fileTable[call.file].size = 0

\* C3: a uniform black image, jitter 0 (the draw 0.5) and a file of 0 bytes
\* give edge energy 0, channel deviation 0, saturation 0, sizeNorm 1, the
\* score 90.0 exactly, and the verdict 'AI-generated'.
C3_BlackImage ==
  BlackCall =>
    /\ call.lapAvg = 0 /\ call.avgStd = 0 /\ call.avgSat = 0 /\ call.sizeNorm = 1000
    /\ call.score = 90000 /\ call.finalScore = 90000
    /\ ~resultBox.hidden /\ resultBox.score = 90000 /\ resultBox.verdict = "AI-generated"

\* C3, its case: such a call has returned and its result is displayed.
C3_Witness == BlackCall /\ ~resultBox.hidden /\ resultBox.verdict = "AI-generated"

\* d * scale as the fraction <<n, m>>, scale = min(1, 512 / max(origW, origH))
Scaled(d, origW, origH) ==
  IF origW <= 512 /\ origH <= 512 THEN <<d, 1>>
  ELSE <<d * 512, IF origW >= origH THEN origW ELSE origH>>

\* k is max(64, the integer nearest to q[1]/q[2], a half going up)
IsMax64Round(k, q) ==
  IF 2 * q[1] + q[2] < 128 * q[2] THEN k = 64
  ELSE 2 * q[2] * k - q[2] <= 2 * q[1] /\ 2 * q[1] < 2 * q[2] * k + q[2]

\* k is max(64, floor(q[1]/q[2]))
IsMax64Floor(k, q) ==
  IF q[1] < 64 * q[2] THEN k = 64
  ELSE q[2] * k <= q[1] /\ q[1] < q[2] * k + q[2]

PositiveCall == Returned /\ call.imgBitmap.width > 0 /\ call.imgBitmap.height > 0

\* C4 as amended: for a source image of positive dimensions the working
\* buffer is max(64, round(origW*scale)) wide and max(64, round(origH*scale))
\* high, round being Math.round, and both lie in 64..512.
C4_WorkingSizeRounded ==
  PositiveCall =>
    /\ IsMax64Round(call.w, Scaled(call.imgBitmap.width, call.imgBitmap.width, call.imgBitmap.height))
    /\ IsMax64Round(call.h, Scaled(call.imgBitmap.height, call.imgBitmap.width, call.imgBitmap.height))
    /\ 64 <= call.w /\ call.w <= 512 /\ 64 <= call.h /\ call.h <= 512

\* C4, its case: a downscaled image whose height was rounded up past 64.
C4_Witness ==
  /\ PositiveCall
  /\ call.imgBitmap.width > 512
  /\ call.h > 64
  /\ call.h * call.imgBitmap.width > call.imgBitmap.height * 512

\* C4 as claimed: the working buffer is max(64, floor(origW*scale)) wide and
\* max(64, floor(origH*scale)) high, both in 64..512.
C4_WorkingSizeFloored ==
  PositiveCall =>
    /\ IsMax64Floor(call.w, Scaled(call.imgBitmap.width, call.imgBitmap.width, call.imgBitmap.height))
    /\ IsMax64Floor(call.h, Scaled(call.imgBitmap.height, call.imgBitmap.width, call.imgBitmap.height))
    /\ 64 <= call.w /\ call.w <= 512 /\ 64 <= call.h /\ call.h <= 512

\* C5: given an image of zero width or zero height the scoring call fails
\* before any feature is computed; no score is returned or displayed.
C5_ZeroAreaFails ==
  (call.outcome # "none" /\ ZeroArea(call.imgBitmap)) => call.outcome = "threw"

\* C6: two calls with the same pixel buffer and the same file length return
\* the same score (the claim has the jitter fixed to 0 through a pluggable
\* random source; the function takes none, so nothing fixes its draw).
C6_SameInputSameScore ==
  [][(/\ call.outcome = "returned" /\ call'.outcome = "returned"
      /\ call'.imgBitmap = call.imgBitmap /\ call'.file = call.file)
     => call'.finalScore = call.finalScore]_vars

\* C7: the jittered score before the final clamp differs from the weighted
\* score by at most 3 either way, and the weighted score lies in 0..100.
C7_JitterAndRawRange ==
  Returned =>
    /\ 0 - 3000 <= call.jittered - call.score /\ call.jittered - call.score <= 3000
    /\ 0 <= call.score /\ call.score <= 100000

\* C7, its case: the jitter at its lower end, 3 below the weighted score.
C7_Witness == Returned /\ call.jittered - call.score = 0 - 3000 /\ call.score > 0

InFlight == \E f \in Files : analyses[f] > 0

\* C8: while an analysis is running the loader is visible, and every
\* analysis that was started ends with the loader hidden and Analyze enabled.
C8_LoaderTracksAnalysis ==
  /\ [](InFlight => ~loaderHidden)
  /\ \A f \in Files : (analyses[f] > 0) ~> (loaderHidden /\ ~analyzeBtnDisabled)

\* C9: the Analyze control is enabled only while a file is loaded.
C9_EnabledImpliesFile == ~analyzeBtnDisabled => currentFile # null

\* C10: a visible result belongs to the file that is loaded now: a file is
\* loaded, and the score came from its pixels and its length.
C10_ResultOfCurrentFile ==
  ~resultBox.hidden => currentFile # null /\ resultOf = <<currentFile, currentFile>>

====
